---- MODULE Spec2Model ----
(***************************************************************************)
(* Model of src/server.js: a relay between WebSocket devices and a         *)
(* Telegram operator channel.  The state is the clients Map, each          *)
(* WebSocket's readyState, the two setInterval timers, the Telegram        *)
(* start-up sequence, and what the last handled event sent.                *)
(*                                                                         *)
(* Strings that the program parses (operator texts) are sequences of       *)
(* atoms; an atom is a one-element string that contains no ':' except the  *)
(* atom ":" itself.  Client ids are atoms; the id string is <<atom>>.      *)
(***************************************************************************)
EXTENDS Integers, Sequences, FiniteSets, TLC

\* ---------------------------------------------------------------- bounds
\* Connections accepted in one run.
MaxConns == 2
\* Clock steps in one run; one step is TickMs.
MaxTicks == 3
\* How many probe ticks the specification of the answering device runs to.
MaxProbes == 3
\* The longest operator text of the parsing specification, in atoms.
MaxTextLen == 6
\* How late a timer callback can start, in milliseconds.
MaxLate == 10

\* ----------------------------------------------------- program constants
ProbeInterval == 30000
SweepInterval == 10000
StaleThreshold == 30000
WaitingLabel == "Waiting..."
UnknownLabel == "Unknown"

\* The step of the clock between the starts of timer callbacks.
TickMs == SweepInterval
MaxTime == MaxTicks * TickMs

\* How late a timer callback starts: never, or by nothing or MaxLate.
OnTime == {0}
Lateness == {0, MaxLate}

\* ------------------------------------------------------------ JS values
UNDEF == "<undefined>"
Truthy(v) == v # UNDEF /\ v # ""
\* a || b
Or(a, b) == IF Truthy(a) THEN a ELSE b

\* ------------------------------------------------------------- uuidv4()
\* The ids uuidv4() returns, in the order it returns them.  uuidv4 is the
\* uuid package's random generator; it is modelled as never repeating.
UuidPool == <<"A", "B", "C", "D">>
ClientIds == {UuidPool[i] : i \in 1..Len(UuidPool)}
uuidv4(n) == UuidPool[n + 1]

\* req.socket.remoteAddress: the peer's address, or undefined when the peer
\* is gone by the time the connection event runs.
RemoteAddresses == {"10.0.0.1", UNDEF}
CoreRemoteAddresses == {"10.0.0.1"}

\* ------------------------------------------------------ device messages
\* The text of a device message, by what JSON.parse makes of it: a syntax
\* error, the value null, or an object with the fields it carries.
Obj(t, ip, loc) == [json |-> "object", type |-> t, ip |-> ip, location_device |-> loc]
RawMessages ==
    { [json |-> "invalid", type |-> UNDEF, ip |-> UNDEF, location_device |-> UNDEF],
      [json |-> "null", type |-> UNDEF, ip |-> UNDEF, location_device |-> UNDEF],
      Obj("connect", UNDEF, UNDEF),
      Obj("connect", "10.9.9.9", "lab"),
      Obj("connect", "", "lab"),
      Obj("heartbeat", UNDEF, UNDEF),
      Obj("heartbeat", "10.9.9.9", "lab"),
      Obj("unknown", "10.9.9.9", "lab"),
      Obj(UNDEF, UNDEF, UNDEF) }

CoreRawMessages == {Obj("heartbeat", UNDEF, UNDEF)}
\* The messages that write the entry, and one that does not parse.
LateRawMessages ==
    {[json |-> "invalid"], Obj("connect", "10.9.9.9", "lab"), Obj("connect", "", UNDEF),
     Obj("heartbeat", UNDEF, UNDEF)}

\* ---------------------------------------------------- operator messages
UserId == "100"
GroupId == "-200"
StrangerId == "999"
\* The environment of the start-up: whether TARGET_PERSONAL_USERNAME is set,
\* and whether the dialogs have the group of TARGET_GROUP_ID001.
Installs == [user : BOOLEAN, group : BOOLEAN]
\* The start-up with the user's chat as the one allowed chat.
CoreInstalls == {[user |-> TRUE, group |-> FALSE]}
\* Where an operator message comes from: msg.chatId and msg.senderId.
Origins ==
    { [chatId |-> UserId, sender |-> UserId],
      [chatId |-> GroupId, sender |-> UNDEF],
      [chatId |-> StrangerId, sender |-> StrangerId],
      [chatId |-> UNDEF, sender |-> UserId] }
CoreOrigins ==
    { [chatId |-> UserId, sender |-> UserId],
      [chatId |-> StrangerId, sender |-> StrangerId] }
Texts ==
    { <<>>,
      <<"hello">>,
      <<"esp32", ":", "A", ":", "reboot">>,
      <<"ESP32", ":", "B", ":", "reboot">>,
      <<"esp32", ":", "A", ":">>,
      <<"esp32", ":", "B", ":", "x", ":", "y">>,
      <<"esp32", ":", "a", ":", "reboot">>,
      <<"esp32", ":", "A">>,
      <<"foo", ":", "A", ":", "reboot">> }

CoreTexts == {<<"hello">>, <<"esp32", ":", "A", ":", "reboot">>}

\* Every operator text of up to MaxTextLen atoms over the separator, the tag
\* in two spellings, an id of a connection, and an atom that is the same id
\* in lower case and serves as a command.
TextAtoms == {":", "esp32", "ESP32", "A", "a"}
AllTexts == UNION {[1..n -> TextAtoms] : n \in 0..MaxTextLen}

\* String.prototype.toLowerCase on an atom, and on a string.
LowerAtom(a) ==
    CASE a = "ESP32" -> "esp32"
      [] a = "Esp32" -> "esp32"
      [] a = "A" -> "a"
      [] a = "B" -> "b"
      [] a = "C" -> "c"
      [] a = "D" -> "d"
      [] OTHER -> a
toLowerCase(s) == [i \in 1..Len(s) |-> LowerAtom(s[i])]

\* String.prototype.split(":"): the pieces between the separators.
RECURSIVE split(_)
split(s) ==
    IF \A i \in 1..Len(s) : s[i] # ":"
    THEN <<s>>
    ELSE LET k == CHOOSE i \in 1..Len(s) : s[i] = ":" /\ \A j \in 1..(i - 1) : s[j] # ":"
         IN <<SubSeq(s, 1, k - 1)>> \o split(SubSeq(s, k + 1, Len(s)))

\* Array.prototype.join(":")
RECURSIVE join(_)
join(parts) ==
    IF Len(parts) = 0 THEN <<>>
    ELSE IF Len(parts) = 1 THEN parts[1]
    ELSE parts[1] \o <<":">> \o join(Tail(parts))

\* A slice that keeps the third part only.
slice2First(parts) == IF Len(parts) <= 2 THEN <<>> ELSE <<parts[3]>>

\* Array.prototype.slice(2)
slice2(parts) == IF Len(parts) <= 2 THEN <<>> ELSE SubSeq(parts, 3, Len(parts))

VARIABLES
    now,              \* Date.now(), ms since the process started
    nextProbe,        \* when the 30 s interval fires next
    nextSweep,        \* when the 10 s interval fires next
    issued,           \* how many ids uuidv4() has returned
    clients,          \* the Map, in insertion order: <<[clientId, metadata]>>
    readyState,       \* ws.readyState of the socket of each id
    clientIP,         \* the connection handler's const clientIP, per id
    terminateCalls,   \* how often ws.terminate() was called, per id
    isAlive,          \* ws.isAlive, per id
    telegramSelfUser, \* let telegramSelfUser
    allowedChatIds,   \* const allowedChatIds
    tg,               \* where the async start-up function is
    sent,             \* per id: what the last event passed to ws.send
    lost,             \* ids whose send in the last event failed
    tgSent,           \* what the last event passed to telegramClient.sendMessage
    unsettled,        \* a promise of telegramClient.sendMessage may still reject
    firstOut,         \* per id: the first message ever passed to ws.send
    pinged,           \* ids in the Map that the last probe tick passed a ping for
                      \* to ws.send, with no connect or heartbeat handled since
    last              \* the last event handled

vars == <<now, nextProbe, nextSweep, issued, clients, readyState, clientIP,
          terminateCalls, isAlive, telegramSelfUser, allowedChatIds, tg, sent, lost,
          tgSent, unsettled, firstOut, pinged, last>>

timerVars == <<now, nextProbe, nextSweep>>
tgVars == <<telegramSelfUser, allowedChatIds, tg>>

NoMsg == [type |-> "none"]
NoSent == [c \in ClientIds |-> <<>>]

\* ------------------------------------------------------------- the Map
Keys == {clients[i].clientId : i \in 1..Len(clients)}
Has(id) == id \in Keys
IndexOf(id) == CHOOSE i \in 1..Len(clients) : clients[i].clientId = id
\* clients.get(id).metadata
Get(id) == clients[IndexOf(id)].metadata
\* clients.set(id, {ws, metadata}): in place for a key of the Map, else at the end
MapSet(m, id, md) ==
    IF \E i \in 1..Len(m) : m[i].clientId = id
    THEN [i \in 1..Len(m) |-> IF m[i].clientId = id
                              THEN [clientId |-> id, metadata |-> md] ELSE m[i]]
    ELSE Append(m, [clientId |-> id, metadata |-> md])
\* A delete that removes nothing.
MapDeleteNothing(m, id) == m

\* clients.delete(id)
MapDelete(m, id) == SelectSeq(m, LAMBDA e : e.clientId # id)

\* A test that lets a closing socket pass.
IsNotClosed(id) == readyState[id] # "CLOSED"

\* ws.readyState === WebSocket.OPEN
IsOpen(id) == readyState[id] = "OPEN"

\* ------------------------------------------------------------- sending
\* The sets of writes that may fail during one event, among those to the ids
\* the event sends to.
FailSets(s) == SUBSET {c \in ClientIds : Len(s[c]) > 0}

\* A loop that stops at the first send that fails.
SendAllAbort(targets, msg, fails) ==
    [c \in ClientIds |->
        IF \E i \in 1..Len(targets) :
              targets[i] = c /\ \A j \in 1..(i - 1) : targets[j] \notin fails
        THEN <<msg>> ELSE <<>>]

\* A loop that returns after its first send.
SendAllFirst(targets, msg, fails) ==
    [c \in ClientIds |-> IF Len(targets) > 0 /\ targets[1] = c THEN <<msg>> ELSE <<>>]

\* ws.send(msg) on each id of the sequence targets, in that order; fails are
\* the ids whose write fails.  ws.send on an open socket returns normally and
\* a failed write is reported afterwards (the socket errors and closes), so
\* the loop goes on to the next id.
SendAll(targets, msg, fails) ==
    [c \in ClientIds |->
        IF \E i \in 1..Len(targets) : targets[i] = c THEN <<msg>> ELSE <<>>]

\* The ids whose send was made and failed.
Lost(s, fails) == {c \in fails : Len(s[c]) > 0}

\* The first message of each connection, once the sends s are made.
FirstOut(s) ==
    [c \in ClientIds |->
        IF firstOut[c] = NoMsg /\ Len(s[c]) > 0 THEN s[c][1] ELSE firstOut[c]]

\* A broadcast that leaves out the readyState test.
AllTargets == [i \in 1..Len(clients) |-> clients[i].clientId]

\* The ids of the Map in iteration order whose socket is open.
OpenTargets ==
    LET ids == [i \in 1..Len(clients) |-> clients[i].clientId]
    IN SelectSeq(ids, IsOpen)

\* function broadcast(messageObj)
broadcast(messageObj, fails) == SendAll(OpenTargets, messageObj, fails)

Init ==
    /\ now = 0
    /\ nextProbe = ProbeInterval
    /\ nextSweep = SweepInterval
    /\ issued = 0
    /\ clients = <<>>
    /\ readyState = [c \in ClientIds |-> "NONE"]
    /\ clientIP = [c \in ClientIds |-> UNDEF]
    /\ terminateCalls = [c \in ClientIds |-> 0]
    /\ isAlive = [c \in ClientIds |-> FALSE]
    /\ telegramSelfUser = UNDEF
    /\ allowedChatIds = {}
    /\ tg = "connecting"
    /\ sent = NoSent
    /\ lost = {}
    /\ tgSent = <<>>
    /\ unsettled = FALSE
    /\ firstOut = [c \in ClientIds |-> NoMsg]
    /\ pinged = {}
    /\ last = [ev |-> "init"]

Running == tg # "exited"

\* A greeting without the id.
ConnectedNoId(clientId) == [type |-> "connected", clientId |-> UNDEF]

\* ws.send(JSON.stringify({type: "connected", clientId}))
Connected(clientId) == [type |-> "connected", clientId |-> clientId]

\* wss.on("connection", (ws, req) => ...)
OnConnection(ip) ==
    /\ Running
    /\ issued < MaxConns
    /\ LET clientId == uuidv4(issued)
           s == [NoSent EXCEPT ![clientId] = <<Connected(clientId)>>]
       IN /\ issued' = issued + 1
          /\ clientIP' = [clientIP EXCEPT ![clientId] = ip]
          /\ readyState' = [readyState EXCEPT ![clientId] = "OPEN"]
          /\ isAlive' = [isAlive EXCEPT ![clientId] = TRUE]
          /\ clients' = MapSet(clients, clientId,
                               [ip |-> ip, location_device |-> WaitingLabel, lastSeen |-> now])
          /\ \E F \in FailSets(s) : lost' = Lost(s, F)
          /\ sent' = s
          /\ firstOut' = FirstOut(s)
          /\ last' = [ev |-> "connection", id |-> clientId]
    /\ tgSent' = <<>>
    /\ UNCHANGED <<pinged, timerVars, tgVars, terminateCalls, unsettled>>

\* ws.on("pong", heartbeat): function heartbeat() { this.isAlive = true }.
\* The device's transport answers a ping frame; the server sends none itself,
\* so the event is the device's to raise.
OnPong(id) ==
    /\ Running
    /\ readyState[id] = "OPEN"
    /\ isAlive' = [isAlive EXCEPT ![id] = TRUE]
    /\ sent' = NoSent
    /\ lost' = {}
    /\ tgSent' = <<>>
    /\ last' = [ev |-> "pong", id |-> id]
    /\ UNCHANGED <<pinged, timerVars, tgVars, issued, clients, readyState, clientIP, terminateCalls,
                   firstOut, unsettled>>

\* ------------------------------------------------- ws.on("message", ...)
\* A connect branch that falls back to the address stored in the entry.
ConnectMetadataStoredIp(id, data) ==
    [ip |-> Or(data.ip, Get(id).ip),
     location_device |-> Or(data.location_device, UnknownLabel),
     lastSeen |-> now]

\* A connect branch that keeps the old timestamp.
ConnectMetadataNoStamp(id, data) ==
    [ip |-> Or(data.ip, clientIP[id]),
     location_device |-> Or(data.location_device, UnknownLabel),
     lastSeen |-> Get(id).lastSeen]

\* The connect branch's metadata: data.ip || clientIP, data.location_device
\* || "Unknown", new Date().
ConnectMetadata(id, data) ==
    [ip |-> Or(data.ip, clientIP[id]),
     location_device |-> Or(data.location_device, UnknownLabel),
     lastSeen |-> now]

\* A heartbeat branch that forgets the timestamp.
HeartbeatMetadataKept(md) == md

\* The heartbeat branch's metadata: metadata.lastSeen = new Date().
HeartbeatMetadata(md) == [md EXCEPT !.lastSeen = now]

\* A notification sent whether or not telegramSelfUser is set.
NotifyAlways(md, total) ==
    <<[to |-> telegramSelfUser, location_device |-> md.location_device,
       ip |-> md.ip, total |-> total]>>

\* The operator notification of the connect branch, sent when telegramSelfUser
\* is set; the count is clients.size after the clients.set.
Notify(md, total) ==
    IF Truthy(telegramSelfUser)
    THEN <<[to |-> telegramSelfUser, location_device |-> md.location_device,
            ip |-> md.ip, total |-> total]>>
    ELSE <<>>

\* A handler that counts any message of an unrecognised type as a sign of life.
MessageBranchAnyType(id, raw) ==
    IF raw.json = "invalid" THEN "catch"
    ELSE IF ~Has(id) THEN "return"
    ELSE IF raw.json = "null" THEN "catch"
    ELSE IF raw.type = "connect" THEN "connect"
    ELSE "heartbeat"

\* A handler that stamps lastSeen before it parses the message.
MessageBranchStampFirst(id, raw) ==
    IF ~Has(id) THEN "return"
    ELSE IF raw.json = "invalid" \/ raw.json = "null" THEN "heartbeat"
    ELSE IF raw.type = "connect" THEN "connect"
    ELSE IF raw.type = "heartbeat" THEN "heartbeat"
    ELSE "unknown"

\* A handler without the if (!clientData) return of the connect branch.
MessageBranchNoGuard(id, raw) ==
    IF raw.json = "invalid" THEN "catch"
    ELSE IF raw.json = "null" THEN (IF Has(id) THEN "catch" ELSE "return")
    ELSE IF raw.type = "connect" THEN "connect"
    ELSE IF ~Has(id) THEN "return"
    ELSE IF raw.type = "heartbeat" THEN "heartbeat"
    ELSE "unknown"

\* What the handler does to the Map for a message: JSON.parse throws or the
\* id is not a key (nothing); null makes data.type throw into the catch
\* (nothing); connect and heartbeat write the entry; any other type logs.
MessageBranch(id, raw) ==
    IF raw.json = "invalid" THEN "catch"
    ELSE IF ~Has(id) THEN "return"
    ELSE IF raw.json = "null" THEN "catch"
    ELSE IF raw.type = "connect" THEN "connect"
    ELSE IF raw.type = "heartbeat" THEN "heartbeat"
    ELSE "unknown"

\* The body of the handler: it runs the same way whenever it is called.
HandleMessage(id, raw) ==
    /\ LET branch == MessageBranch(id, raw)
       IN /\ clients' = CASE branch = "connect" -> MapSet(clients, id, ConnectMetadata(id, raw))
                          [] branch = "heartbeat" -> MapSet(clients, id, HeartbeatMetadata(Get(id)))
                          [] OTHER -> clients
          /\ tgSent' = IF branch = "connect"
                       THEN Notify(ConnectMetadata(id, raw), Len(clients'))
                       ELSE <<>>
    /\ unsettled' = (unsettled \/ tgSent' # <<>>)
    /\ pinged' = IF MessageBranch(id, raw) \in {"connect", "heartbeat"}
                 THEN pinged \ {id} ELSE pinged
    /\ sent' = NoSent
    /\ lost' = {}
    /\ last' = [ev |-> "message", id |-> id, raw |-> raw]
    /\ UNCHANGED <<timerVars, tgVars, issued, readyState, clientIP, terminateCalls, firstOut,
                   isAlive>>

OnMessage(id, raw) ==
    /\ Running
    /\ readyState[id] \in {"OPEN", "CLOSING"}
    /\ HandleMessage(id, raw)

\* The handler called for a connection whose close event was handled already.
\* The ws library emits no message after the close event; the handler does
\* not rely on that (if (!clientData) return), and this action calls it then.
OnLateMessage(id, raw) ==
    /\ Running
    /\ readyState[id] = "CLOSED"
    /\ HandleMessage(id, raw)

\* The library starts to close the connection: the peer's close frame came
\* in, or the socket failed (a lost write among the causes).  The socket is
\* CLOSING, no handler of the program is called, and the entry stays in the
\* Map until the close event.
OnClosing(id) ==
    /\ Running
    /\ readyState[id] = "OPEN"
    /\ readyState' = [readyState EXCEPT ![id] = "CLOSING"]
    /\ sent' = NoSent
    /\ lost' = {}
    /\ tgSent' = <<>>
    /\ last' = [ev |-> "closing", id |-> id]
    /\ UNCHANGED <<pinged, timerVars, tgVars, issued, clients, clientIP, terminateCalls, firstOut,
                   isAlive, unsettled>>

\* ws.on("close", ...): the socket is closed; clients.delete(clientId).
OnClose(id) ==
    /\ Running
    /\ readyState[id] \in {"OPEN", "CLOSING"}
    /\ readyState' = [readyState EXCEPT ![id] = "CLOSED"]
    /\ clients' = MapDelete(clients, id)
    /\ pinged' = pinged \ {id}
    /\ sent' = NoSent
    /\ lost' = {}
    /\ tgSent' = <<>>
    /\ last' = [ev |-> "close", id |-> id]
    /\ UNCHANGED <<timerVars, tgVars, issued, clientIP, terminateCalls, firstOut, isAlive, unsettled>>

\* ws.on("error", ...): the handler logs.  The library may already have moved
\* the socket to CLOSING when it emits the event; its close event comes later.
OnError(id, rs) ==
    /\ Running
    /\ readyState[id] = "OPEN"
    /\ rs \in {"OPEN", "CLOSING"}
    /\ readyState' = [readyState EXCEPT ![id] = rs]
    /\ sent' = NoSent
    /\ lost' = {}
    /\ tgSent' = <<>>
    /\ last' = [ev |-> "error", id |-> id]
    /\ UNCHANGED <<pinged, timerVars, tgVars, issued, clients, clientIP, terminateCalls, firstOut, isAlive, unsettled>>

\* ------------------------------------------------------------ intervals
\* setInterval(() => broadcast({type: "command", action: "ping"}), 30000):
\* the callback runs at its due time or later, and the timer is armed again
\* from the moment the callback starts.
Ping == [type |-> "command", action |-> "ping"]

ProbeTick ==
    /\ Running
    /\ now >= nextProbe
    /\ nextProbe' = now + ProbeInterval
    /\ \E F \in FailSets(broadcast(Ping, {})) :
          /\ sent' = broadcast(Ping, F)
          /\ lost' = Lost(sent', F)
    /\ firstOut' = FirstOut(sent')
    /\ pinged' = {c \in ClientIds : Len(sent'[c]) > 0}
    /\ tgSent' = <<>>
    /\ last' = [ev |-> "probe"]
    /\ UNCHANGED <<now, nextSweep, tgVars, issued, clients, readyState, clientIP, terminateCalls, isAlive, unsettled>>

\* now - new Date(metadata.lastSeen).getTime() > 30000
IsStale(md) == now - md.lastSeen > StaleThreshold

\* ws.terminate(): nothing on a closed socket, else the socket is destroyed
\* and the WebSocket is CLOSING until its close event.
terminate(rs) == IF rs = "CLOSED" THEN "CLOSED" ELSE "CLOSING"

\* The ids the sweep calls ws.terminate() on.
SweepTargets == {id \in Keys : IsStale(Get(id))}

SweepTick ==
    /\ Running
    /\ now >= nextSweep
    /\ nextSweep' = now + SweepInterval
    /\ readyState' = [c \in ClientIds |->
                        IF c \in SweepTargets THEN terminate(readyState[c]) ELSE readyState[c]]
    /\ terminateCalls' = [c \in ClientIds |->
                        IF c \in SweepTargets THEN terminateCalls[c] + 1 ELSE terminateCalls[c]]
    /\ sent' = NoSent
    /\ lost' = {}
    /\ tgSent' = <<>>
    /\ last' = [ev |-> "sweep"]
    /\ UNCHANGED <<pinged, now, nextProbe, tgVars, issued, clients, clientIP, firstOut, isAlive, unsettled>>

\* The moment the next timer callback is due.
Due == IF nextProbe < nextSweep THEN nextProbe ELSE nextSweep

\* The moments the clock can move to: one step ahead while no timer is due
\* before, or the moment a due callback starts, late by one of the amounts.
Moments(steps, lates) ==
    {t \in {now + d : d \in steps} : t <= Due} \cup {Due + l : l \in lates}

\* Time passes.  A due callback starts no later than the largest lateness.
TickBy(steps, lates, horizon) ==
    /\ Running
    /\ now < horizon
    /\ \E t \in Moments(steps, lates) : now < t /\ now' = t
    /\ sent' = NoSent
    /\ lost' = {}
    /\ tgSent' = <<>>
    /\ last' = [ev |-> "tick"]
    /\ UNCHANGED <<pinged, nextProbe, nextSweep, tgVars, issued, clients, readyState, clientIP,
                   terminateCalls, firstOut, isAlive, unsettled>>

\* Time passes in steps of TickMs.
Tick(lates, horizon) == TickBy({TickMs}, lates, horizon)

\* ------------------------------------------------------------- Telegram
\* telegramSelfUser = await telegramClient.getEntity(targetPersonalUsername):
\* the call resolves to an entity (with the name unset too, when the library
\* resolves it), or rejects (TgFail).
TgLogin ==
    /\ tg = "connecting"
    /\ tg' = "loggedIn"
    /\ telegramSelfUser' = UserId
    /\ sent' = NoSent
    /\ lost' = {}
    /\ tgSent' = <<>>
    /\ last' = [ev |-> "tgLogin"]
    /\ UNCHANGED <<pinged, timerVars, allowedChatIds, issued, clients, readyState, clientIP,
                   terminateCalls, firstOut, isAlive, unsettled>>

\* targetEntities: the user when TARGET_PERSONAL_USERNAME is set, and the
\* group when getDialogs() has it.
TargetEntities(userSet, groupFound) ==
    (IF userSet THEN {UserId} ELSE {}) \cup (IF groupFound THEN {GroupId} ELSE {})

\* const allowedChatIds = new Set(...); telegramClient.addEventHandler(...)
TgInstall(userSet, groupFound) ==
    /\ tg = "loggedIn"
    /\ tg' = "ready"
    /\ allowedChatIds' = TargetEntities(userSet, groupFound)
    /\ sent' = NoSent
    /\ lost' = {}
    /\ tgSent' = <<>>
    /\ last' = [ev |-> "tgInstall"]
    /\ UNCHANGED <<pinged, timerVars, telegramSelfUser, issued, clients, readyState, clientIP,
                   terminateCalls, firstOut, isAlive, unsettled>>

\* catch (err) { ...; process.exit(1) }
TgFail ==
    /\ tg \in {"connecting", "loggedIn"}
    /\ tg' = "exited"
    /\ sent' = NoSent
    /\ lost' = {}
    /\ tgSent' = <<>>
    /\ last' = [ev |-> "tgFail"]
    /\ UNCHANGED <<pinged, timerVars, telegramSelfUser, allowedChatIds, issued, clients, readyState,
                   clientIP, terminateCalls, firstOut, isAlive, unsettled>>

\* The promise telegramClient.sendMessage returned to the connect branch
\* rejects (a failed call): it is neither awaited nor caught, and the
\* unhandled rejection ends the process.
OnRejection ==
    /\ Running
    /\ unsettled
    /\ tg' = "exited"
    /\ sent' = NoSent
    /\ lost' = {}
    /\ tgSent' = <<>>
    /\ last' = [ev |-> "rejection"]
    /\ UNCHANGED <<pinged, timerVars, telegramSelfUser, allowedChatIds, issued, clients, readyState,
                   clientIP, terminateCalls, firstOut, isAlive, unsettled>>

\* A filter that leaves out the allowedChatIds test.
AcceptedAnyChat(chatId, text) == Len(text) > 0

\* if (!msg || !msg.message) return; if (!allowedChatIds.has(chatId)) return
Accepted(chatId, text) == Len(text) > 0 /\ chatId \in allowedChatIds

\* parts.length >= 3 && parts[0].toLowerCase() === "esp32"
IsPointToPoint(parts) == Len(parts) >= 3 /\ toLowerCase(parts[1]) = <<"esp32">>

\* A point-to-point loop that leaves out the readyState test.
UnicastTargetsAnyState(clientID) ==
    LET ids == [i \in 1..Len(clients) |-> clients[i].clientId]
    IN SelectSeq(ids, LAMBDA c : <<c>> = clientID)

\* The ids the point-to-point loop sends to: clientId === clientID and the
\* socket is open.
UnicastTargets(clientID) ==
    LET ids == [i \in 1..Len(clients) |-> clients[i].clientId]
    IN SelectSeq(ids, LAMBDA c : <<c>> = clientID /\ IsOpen(c))

\* What the event handler passes to ws.send, per id.
Route(chatId, senderId, text, fails) ==
    LET parts == split(text)
    IN IF ~Accepted(chatId, text) THEN NoSent
       ELSE IF IsPointToPoint(parts)
            THEN SendAll(UnicastTargets(parts[2]),
                         [clientID |-> parts[2], message |-> join(slice2(parts))], fails)
            ELSE broadcast([from |-> chatId, sender |-> senderId, message |-> text], fails)

\* telegramClient.addEventHandler(async (event) => ...)
OnTelegram(chatId, sender, text) ==
    /\ tg = "ready"
    /\ \E F \in FailSets(Route(chatId, Or(sender, "unknown"), text, {})) :
          /\ sent' = Route(chatId, Or(sender, "unknown"), text, F)
          /\ lost' = Lost(sent', F)
    /\ firstOut' = FirstOut(sent')
    /\ tgSent' = <<>>
    /\ last' = [ev |-> "telegram", chatId |-> chatId, sender |-> sender, text |-> text]
    /\ UNCHANGED <<pinged, timerVars, tgVars, issued, clients, readyState, clientIP, terminateCalls, isAlive, unsettled>>

\* One step of the program, with the device messages, the operator messages,
\* the horizon of the clock and the lateness of the timer callbacks drawn from
\* the given sets.
Step(ips, installs, raws, origins, texts, horizon, lates) ==
    \/ \E ip \in ips : OnConnection(ip)
    \/ \E id \in ClientIds, raw \in raws : OnMessage(id, raw)
    \/ \E id \in ClientIds : OnClosing(id)
    \/ \E id \in ClientIds : OnClose(id)
    \/ \E id \in ClientIds, rs \in {"OPEN", "CLOSING"} : OnError(id, rs)
    \/ ProbeTick
    \/ SweepTick
    \/ Tick(lates, horizon)
    \/ TgLogin
    \/ \E i \in installs : TgInstall(i.user, i.group)
    \/ TgFail
    \/ \E o \in origins, text \in texts : OnTelegram(o.chatId, o.sender, text)

\* The device protocol in full, with two operator messages, timer callbacks
\* that start on time and a clock that stops at the first probe tick.
Next ==
    \/ Step(CoreRemoteAddresses, CoreInstalls, RawMessages, CoreOrigins, CoreTexts, MaxTime,
            OnTime)
    \/ OnRejection

Spec == Init /\ [][Next]_vars

\* The operator messages in full, with the heartbeat as the only device
\* message and a clock that stops at the first probe tick.
NextRoute ==
    Step(CoreRemoteAddresses, Installs, CoreRawMessages, Origins, Texts, ProbeInterval, OnTime)

SpecRoute == Init /\ [][NextRoute]_vars

\* The timers up to the second sweep tick after the first entry can be stale,
\* their callbacks starting on time or late, with the heartbeat as the only
\* device message and the transport's pong.
NextEvict ==
    \/ Step(CoreRemoteAddresses, CoreInstalls, CoreRawMessages, CoreOrigins, CoreTexts,
            StaleThreshold + 2 * SweepInterval, Lateness)
    \/ \E id \in ClientIds : OnPong(id)

SpecEvict == Init /\ [][NextEvict]_vars

\* Registration in full: connections from a peer that may be gone already,
\* connect messages with and without an address, the rejection of a
\* notification, and device messages that are handled after the close event
\* of their connection as well, with a clock that stops at the first probe
\* tick.
NextLate ==
    \/ Step(RemoteAddresses, CoreInstalls, LateRawMessages, CoreOrigins, CoreTexts, ProbeInterval,
            OnTime)
    \/ OnRejection
    \/ \E id \in ClientIds, raw \in LateRawMessages : OnLateMessage(id, raw)

SpecLate == Init /\ [][NextLate]_vars

\* ------------------------------------------------- the answering device
\* Devices that stay connected and answer every ping with a heartbeat that is
\* received less than one sweep interval after it.  Timer callbacks start on
\* time or late; between them the clock moves by half a sweep interval, and
\* connections come at any moment of that clock, before or after the
\* callbacks of the same moment.
FineMs == SweepInterval \div 2
TimelyHorizon == MaxProbes * ProbeInterval + SweepInterval

\* When the last probe callback started (0: none has yet).
LastProbeAt == nextProbe - ProbeInterval

\* The connection was sent the ping of the last probe tick and no connect or
\* heartbeat message of it has been handled since.
Pending(c) == c \in Keys /\ c \in pinged

\* The device's heartbeat in answer to the last ping.
TimelyHeartbeat(c) ==
    /\ Pending(c)
    /\ IsOpen(c)
    /\ now < LastProbeAt + SweepInterval
    /\ OnMessage(c, Obj("heartbeat", UNDEF, UNDEF))

\* A probe tick whose pings all reach their device.
TimelyProbe == ProbeTick /\ lost' = {}

\* Time does not pass beyond the moment an answer is due.
TimelyTick ==
    /\ TickBy({FineMs}, Lateness, TimelyHorizon)
    /\ \A c \in ClientIds : Pending(c) => now' < LastProbeAt + SweepInterval

\* The close event of a connection the server has terminated.
TerminatedClose(c) == terminateCalls[c] > 0 /\ OnClose(c)

NextTimely ==
    \/ \E ip \in RemoteAddresses : OnConnection(ip)
    \/ \E c \in ClientIds : TimelyHeartbeat(c)
    \/ TimelyProbe
    \/ SweepTick
    \/ TimelyTick
    \/ \E c \in ClientIds : TerminatedClose(c)

SpecTimely == Init /\ [][NextTimely]_vars

\* The parsing of operator texts: two connections are open, the Telegram
\* start-up is done with the user as the one allowed chat (the state after two
\* connection events, TgLogin and TgInstall(TRUE, FALSE) at time 0), and one update
\* of the user, with any text of AllTexts, has come in and is handled.
InitParse ==
    /\ now = 0
    /\ nextProbe = ProbeInterval
    /\ nextSweep = SweepInterval
    /\ issued = 2
    /\ clients = <<[clientId |-> uuidv4(0),
                    metadata |-> [ip |-> "10.0.0.1", location_device |-> WaitingLabel,
                                  lastSeen |-> 0]],
                   [clientId |-> uuidv4(1),
                    metadata |-> [ip |-> "10.0.0.1", location_device |-> WaitingLabel,
                                  lastSeen |-> 0]]>>
    /\ readyState = [c \in ClientIds |-> IF c \in {uuidv4(0), uuidv4(1)} THEN "OPEN" ELSE "NONE"]
    /\ clientIP = [c \in ClientIds |-> IF c \in {uuidv4(0), uuidv4(1)} THEN "10.0.0.1" ELSE UNDEF]
    /\ terminateCalls = [c \in ClientIds |-> 0]
    /\ isAlive = [c \in ClientIds |-> c \in {uuidv4(0), uuidv4(1)}]
    /\ telegramSelfUser = UserId
    /\ allowedChatIds = TargetEntities(TRUE, FALSE)
    /\ tg = "ready"
    /\ sent = NoSent
    /\ lost = {}
    /\ tgSent = <<>>
    /\ unsettled = FALSE
    /\ firstOut = [c \in ClientIds |->
                     IF c \in {uuidv4(0), uuidv4(1)}
                     THEN Connected(c) ELSE NoMsg]
    /\ pinged = {}
    /\ \E text \in AllTexts : last = [ev |-> "incoming", text |-> text]

NextParse == last.ev = "incoming" /\ OnTelegram(UserId, UserId, last.text)

SpecParse == InitParse /\ [][NextParse]_vars

\* ======================================================================
\* Properties
\* ======================================================================

\* An operator message counts as handled by the routing code when its text is
\* not empty and its chat id is in allowedChatIds at the time of handling.
LastAccepted == last.ev = "telegram" /\ Len(last.text) > 0 /\ last.chatId \in allowedChatIds

\* The text has the form esp32:<id>:<cmd>: the tag in any case, a colon, and
\* a second colon somewhere after it.
HasGrammar(t) ==
    /\ Len(t) >= 3
    /\ t[1] \in {"esp32", "ESP32", "Esp32"}
    /\ t[2] = ":"
    /\ \E k \in 3..Len(t) : t[k] = ":"
SecondColon(t) == CHOOSE k \in 3..Len(t) : t[k] = ":" /\ \A j \in 3..(k - 1) : t[j] # ":"
\* <id>: what stands between the first two colons; <cmd>: all that follows.
GrammarId(t) == SubSeq(t, 3, SecondColon(t) - 1)
GrammarCmd(t) == SubSeq(t, SecondColon(t) + 1, Len(t))

\* C1: an accepted operator message esp32:<id>:<cmd> is sent to the connection
\* whose id is <id>, as one message carrying <id> and exactly <cmd>, if and
\* only if that id is in the registry with an open transport when the message
\* is handled; nothing is sent to any other connection.
C1_PointToPoint ==
    [][(LastAccepted /\ HasGrammar(last.text))' =>
        \A c \in ClientIds :
            sent'[c] = IF <<c>> = GrammarId(last'.text) /\ c \in Keys /\ readyState[c] = "OPEN"
                       THEN <<[clientID |-> <<c>>, message |-> GrammarCmd(last'.text)]>>
                       ELSE <<>>]_vars

\* C1 witness: with A and B registered and open, esp32:A:reboot was sent to A
\* and nothing to B.
C1_Witness ==
    /\ LastAccepted
    /\ last.text = <<"esp32", ":", "A", ":", "reboot">>
    /\ {"A", "B"} \subseteq Keys
    /\ readyState["A"] = "OPEN" /\ readyState["B"] = "OPEN"
    /\ sent["A"] = <<[clientID |-> <<"A">>, message |-> <<"reboot">>]>>
    /\ sent["B"] = <<>>

\* C2: an accepted operator message that does not have the point-to-point
\* form is sent, as the envelope {from, sender, message: the raw text}, to
\* every connection in the registry whose transport is open when the message
\* is handled, and to no other connection.
C2_Broadcast ==
    [][(LastAccepted /\ ~HasGrammar(last.text))' =>
        \A c \in ClientIds :
            sent'[c] = IF c \in Keys /\ readyState[c] = "OPEN"
                       THEN <<[from |-> last'.chatId,
                               sender |-> IF last'.sender = UNDEF THEN "unknown" ELSE last'.sender,
                               message |-> last'.text]>>
                       ELSE <<>>]_vars

\* C2 witness: hello from the group was sent to the open A and not to B,
\* which is still in the registry with a transport that is closing.
C2_Witness ==
    /\ LastAccepted
    /\ last.text = <<"hello">>
    /\ last.chatId = GroupId
    /\ {"A", "B"} \subseteq Keys
    /\ readyState["A"] = "OPEN" /\ readyState["B"] = "CLOSING"
    /\ sent["A"] = <<[from |-> GroupId, sender |-> "unknown", message |-> <<"hello">>]>>
    /\ sent["B"] = <<>>

\* C8: an operator message whose chat id is not in allowedChatIds sends nothing
\* to any connection and changes nothing in the registry, whatever its text;
\* allowedChatIds does not change once the handler is installed.
C8_NotAllowedIgnored ==
    [][/\ (last'.ev = "telegram" /\ last'.chatId \notin allowedChatIds) =>
            /\ sent' = NoSent
            /\ clients' = clients
            /\ readyState' = readyState
       /\ tg = "ready" => allowedChatIds' = allowedChatIds]_vars

\* C8 witness: esp32:A:reboot from a chat outside the set, with A open in the
\* registry, and again from the group when the group was not resolved.
C8_Witness ==
    /\ last.ev = "telegram"
    /\ last.chatId \in {StrangerId, GroupId}
    /\ last.chatId \notin allowedChatIds
    /\ last.text = <<"esp32", ":", "A", ":", "reboot">>
    /\ "A" \in Keys /\ readyState["A"] = "OPEN"
    /\ sent = NoSent

\* The last event was a broadcast: a probe tick or an operator relay.
LastBroadcast ==
    \/ last.ev = "probe"
    \/ LastAccepted /\ ~HasGrammar(last.text)

\* C10: in a broadcast, every connection that is open and whose own send does
\* not fail gets the payload, wherever the connections whose send fails stand
\* in the iteration order.
C10_FailureIsolated ==
    [][LastBroadcast' =>
        \A c \in Keys : (readyState[c] = "OPEN" /\ c \notin lost') => Len(sent'[c]) = 1]_vars

\* C10 witness: the send to the first connection of the Map failed and the
\* second one got the payload.
C10_Witness ==
    /\ LastBroadcast
    /\ Len(clients) = 2
    /\ clients[1].clientId \in lost
    /\ readyState[clients[2].clientId] = "OPEN"
    /\ Len(sent[clients[2].clientId]) = 1

\* The Map m without the entry of id, the other entries as they were.
Without(m, id) == SelectSeq(m, LAMBDA e : e.clientId # id)

\* C3: right after a sweep tick the registry has no entry whose lastSeen is
\* older than the threshold.
C3_Original ==
    last.ev = "sweep" => \A id \in Keys : ~(now - Get(id).lastSeen > StaleThreshold)

\* C3 witness: a device that never sent a message was terminated by a sweep
\* tick more than 30 s after it connected, and is still in the registry.
C3_Witness ==
    /\ last.ev = "sweep"
    /\ "A" \in Keys
    /\ Get("A").location_device = WaitingLabel
    /\ Get("A").lastSeen = 0
    /\ now > StaleThreshold
    /\ readyState["A"] = "CLOSING"
    /\ terminateCalls["A"] = 1

\* The last event was a message of the given type from a connection.
LastType(t) == last.ev = "message" /\ last.raw.json = "object" /\ last.raw.type = t

\* C4: a heartbeat from a connection in the registry sets the lastSeen of its
\* entry to the time of receipt and leaves its ip and location_device, every
\* other entry and the keys of the registry as they were.
C4_Heartbeat ==
    [][(LastType("heartbeat")' /\ last'.id \in Keys) =>
        /\ Len(clients') = Len(clients)
        /\ \A i \in 1..Len(clients) :
              IF clients[i].clientId = last'.id
              THEN /\ clients'[i].clientId = last'.id
                   /\ clients'[i].metadata.lastSeen = now
                   /\ clients'[i].metadata.ip = clients[i].metadata.ip
                   /\ clients'[i].metadata.location_device = clients[i].metadata.location_device
              ELSE clients'[i] = clients[i]]_vars

\* C4 witness: a heartbeat that carries an ip and a label moved lastSeen of a
\* still unregistered entry and left its ip and label, with another entry in
\* the registry.
C4_Witness ==
    /\ LastType("heartbeat")
    /\ last.raw.ip = "10.9.9.9"
    /\ last.id \in Keys
    /\ Len(clients) = 2
    /\ now > 0
    /\ Get(last.id).lastSeen = now
    /\ Get(last.id).location_device = WaitingLabel
    /\ Get(last.id).ip = clientIP[last.id]

\* C6: a message whose type is neither connect nor heartbeat changes nothing
\* in the registry, sends nothing to the operator and neither closes nor
\* terminates the transport of its sender.
C6_UnknownType ==
    [][(last'.ev = "message" /\ last'.raw.json = "object"
            /\ last'.raw.type \notin {"connect", "heartbeat"}) =>
        /\ clients' = clients
        /\ tgSent' = <<>>
        /\ readyState' = readyState
        /\ terminateCalls' = terminateCalls]_vars

\* C6 witness: {type: "unknown"} arrived later than the lastSeen of its open
\* sender, which is unchanged.
C6_Witness ==
    /\ LastType("unknown")
    /\ last.id \in Keys
    /\ readyState[last.id] = "OPEN"
    /\ Get(last.id).lastSeen < now
    /\ telegramSelfUser # UNDEF

\* The last event was a message that is no structured record: JSON.parse
\* fails on it, or it is the JSON value null.
LastMalformed == last.ev = "message" /\ last.raw.json \in {"invalid", "null"}

\* C7: a malformed message is discarded: the registry and the transport of the
\* sender are as before and nothing is sent; a connect or heartbeat that
\* follows on the same connection is handled as usual.
C7_Malformed ==
    [][/\ LastMalformed' =>
            /\ clients' = clients
            /\ readyState' = readyState
            /\ terminateCalls' = terminateCalls
            /\ tgSent' = <<>>
            /\ sent' = NoSent
       /\ (LastMalformed /\ last'.ev = "message" /\ last'.id = last.id
                /\ last.id \in Keys /\ last'.raw.json = "object") =>
            /\ last'.raw.type \in {"connect", "heartbeat"} =>
                  clients'[IndexOf(last.id)].metadata.lastSeen = now
            /\ last'.raw.type = "connect" =>
                  clients'[IndexOf(last.id)].metadata.location_device
                      = (IF last'.raw.location_device \in {UNDEF, ""}
                         THEN UnknownLabel ELSE last'.raw.location_device)]_vars

\* C7 witness: unparseable text arrived later than the lastSeen of its open,
\* registered sender, which is unchanged.
C7_Witness ==
    /\ last.ev = "message"
    /\ last.raw.json = "invalid"
    /\ last.id \in Keys
    /\ readyState[last.id] = "OPEN"
    /\ Get(last.id).location_device = "lab"
    /\ Get(last.id).lastSeen < now

\* C9 as stated: after a close event and after an error event of a connection
\* its id is not in the registry.
C9_Original == last.ev \in {"close", "error"} => last.id \notin Keys

\* C9 as amended: a close event removes the entry of its connection and no
\* other, the id is absent afterwards, and removing an absent id changes
\* nothing; an error event leaves the registry as it is.
C9_CloseRemoves ==
    [][/\ last'.ev = "close" =>
            /\ last'.id \notin Keys'
            /\ clients' = Without(clients, last'.id)
            /\ MapDelete(clients', last'.id) = clients'
       /\ last'.ev = "error" => clients' = clients]_vars

\* C9 witness: the close event of a registered connection removed it and left
\* the other entry.
C9_Witness ==
    /\ last.ev = "close"
    /\ last.id \notin Keys
    /\ Len(clients) = 1
    /\ readyState[last.id] = "CLOSED"

\* ----------------------------------------------------------------------
\* C11, as stated: over the lifetime of a connection ws.terminate() is called
\* on it at most once, however late its close event is handled.  The sweep
\* tests neither the readyState nor an earlier call, and the entry stays in the
\* Map until the close event: a tick that finds it again calls again.
C11_Original == \A id \in ClientIds : terminateCalls[id] <= 1

\* Two stale connections after the second sweep tick that could find them:
\* one whose close event came in between, one whose close event is still due.
C11_Witness ==
    /\ last.ev = "sweep"
    /\ \E a, b \in ClientIds :
          /\ terminateCalls[a] = 1
          /\ readyState[a] = "CLOSED"
          /\ a \notin Keys
          /\ terminateCalls[b] = 2
          /\ readyState[b] = "CLOSING"
          /\ b \in Keys

\* ----------------------------------------------------------------------
\* C12: an event passes a notification to telegramClient.sendMessage exactly
\* when it is a connect message of a connection in the Map and
\* telegramSelfUser is set: then one notification, to telegramSelfUser, with
\* the label and address just stored and the size of the Map as the total.
\* Every other event (a connect before telegramSelfUser is set, heartbeat,
\* unknown type, malformed message, close, error, timers, operator messages,
\* the Telegram start-up itself) sends none, so nothing is sent later for a
\* connect that came early.
C12_Notifications ==
    [][tgSent' =
          IF /\ LastType("connect")'
             /\ last'.id \in Keys
             /\ telegramSelfUser # UNDEF
          THEN <<[to |-> telegramSelfUser,
                  location_device |-> Get(last.id)'.location_device,
                  ip |-> Get(last.id)'.ip,
                  total |-> Len(clients)]>>
          ELSE <<>>
      ]_vars

\* A connect message of the second of two connections, notified with total 2.
C12_Witness ==
    /\ LastType("connect")
    /\ Len(clients) = 2
    /\ Len(tgSent) = 1
    /\ tgSent[1].total = 2
    /\ tgSent[1].to = UserId

\* ----------------------------------------------------------------------
\* The keys of a Map in iteration order.
KeySeq(m) == [i \in 1..Len(m) |-> m[i].clientId]

\* C13: a connect message of a connection in the Map stores the message's
\* address when it has one (a non-empty string) and else the address the
\* connection handler captured at establishment, whatever an earlier connect
\* stored; it stores the message's label (the label "Unknown" when the
\* message has none) and the time of receipt as lastSeen.  The keys of the Map
\* and their order are as before, and so is every other entry.
C13_Connect ==
    [][(LastType("connect")' /\ last'.id \in Keys)
          => /\ Get(last.id)'.ip =
                   (IF last'.raw.ip \notin {UNDEF, ""}
                    THEN last'.raw.ip ELSE clientIP[last'.id])
             /\ Get(last.id)'.location_device =
                   (IF last'.raw.location_device \notin {UNDEF, ""}
                    THEN last'.raw.location_device ELSE UnknownLabel)
             /\ Get(last.id)'.lastSeen = now
             /\ KeySeq(clients') = KeySeq(clients)
             /\ \A i \in 1..Len(clients) :
                   clients[i].clientId # last'.id => clients'[i] = clients[i]
      ]_vars

\* A connect message without an address on a connection whose entry held the
\* address of an earlier connect message: the entry is back at the address
\* captured at establishment, next to another entry that keeps its own.
C13_Witness ==
    /\ LastType("connect")
    /\ last.raw.ip \in {UNDEF, ""}
    /\ last.id \in Keys
    /\ Get(last.id).ip = clientIP[last.id]
    /\ Get(last.id).lastSeen = now
    /\ now > 0
    /\ \E other \in Keys \ {last.id} :
          /\ Get(other).ip = "10.9.9.9"
          /\ Get(other).lastSeen < now

\* ----------------------------------------------------------------------
\* C14: an id that was taken out of the Map is never a key again: a message
\* handled for an id that is not a key (after its close event) changes
\* nothing and notifies nobody, whatever its type.  The recipients of a
\* broadcast are the connections that are keys of the Map with an open socket
\* when the broadcast starts; the loop runs to its end within one event, so no
\* close event is handled in between.
C14_NoResurrection ==
    [][/\ \A id \in ClientIds : readyState[id] = "CLOSED" => id \notin Keys'
       /\ (last'.ev = "message" /\ last'.id \notin Keys)
             => /\ clients' = clients
                /\ tgSent' = <<>>
       /\ LastBroadcast'
             => {c \in ClientIds : Len(sent'[c]) > 0} = {c \in Keys : readyState[c] = "OPEN"}
      ]_vars

\* A connect message handled after the close event of its connection, with
\* another connection in the Map: the id is not a key.
C14_Witness ==
    /\ LastType("connect")
    /\ readyState[last.id] = "CLOSED"
    /\ last.id \notin Keys
    /\ Len(clients) = 1
    /\ tgSent = <<>>

\* ----------------------------------------------------------------------
\* The claim as stated: after any message of a connection in the Map is
\* handled, its lastSeen is the time of receipt.
C15_Original == (last.ev = "message" /\ last.id \in Keys) => Get(last.id).lastSeen = now

\* The message just handled parsed to an object of type connect or heartbeat.
LastStamps == LastType("connect") \/ LastType("heartbeat")

\* C15: lastSeen of a connection in the Map is set to the time of receipt by
\* every connect and every heartbeat message of that connection; a message of
\* any other type, without a type, or that does not parse to an object, leaves
\* lastSeen as it was.
C15_LastSeen ==
    [][(last'.ev = "message" /\ last'.id \in Keys)
          => Get(last.id)'.lastSeen = (IF LastStamps' THEN now ELSE Get(last'.id).lastSeen)
      ]_vars

\* A message of an unknown type handled later than the last sign of life of
\* its connection: lastSeen is still the earlier time.
C15_Witness ==
    /\ last.ev = "message"
    /\ last.raw.json = "object"
    /\ last.raw.type = "unknown"
    /\ last.id \in Keys
    /\ Get(last.id).lastSeen < now

\* ----------------------------------------------------------------------
\* C16: a probe tick passes {type: "command", action: "ping"} to ws.send once
\* for every connection that is a key of the Map with an open socket, and to
\* no other; it leaves the Map as it is (keys, order, address, label and
\* lastSeen of every entry) and notifies nobody.  A pong of the transport sets
\* ws.isAlive and leaves the Map, lastSeen included, as it is.
C16_ProbeFrame ==
    [][/\ last'.ev = "probe"
             => /\ \A c \in ClientIds :
                      sent'[c] = (IF c \in Keys /\ readyState[c] = "OPEN"
                                  THEN <<[type |-> "command", action |-> "ping"]>>
                                  ELSE <<>>)
                /\ clients' = clients
                /\ tgSent' = <<>>
       /\ last'.ev = "pong"
             => /\ clients' = clients
                /\ isAlive'[last'.id]
                /\ sent' = NoSent
      ]_vars

\* A probe tick with two open connections in the Map, both pinged, the first
\* one at the age the sweep would measure.
C16_Witness ==
    /\ last.ev = "probe"
    /\ Len(clients) = 2
    /\ \A c \in Keys : sent[c] = <<Ping>> /\ readyState[c] = "OPEN"
    /\ now - clients[1].metadata.lastSeen = ProbeInterval

\* ----------------------------------------------------------------------
\* The positions of the separator in a text.
Colons(t) == {i \in 1..Len(t) : t[i] = ":"}

\* C17: for every accepted operator text t: splitting on ":" gives one part
\* more than t has separators, and rejoining the parts gives t back.  The
\* text is point-to-point exactly when it has two separators or more and what
\* stands before the first is the tag esp32 in any case; then the one message
\* sent carries what stands between the first two separators as the id,
\* compared as it is with the keys of the Map, and all that follows the second
\* separator, further separators included and possibly nothing, as the
\* command.  Every other text is broadcast whole.
C17_Addressing ==
    [][LastAccepted' =>
        /\ Len(split(last'.text)) = Cardinality(Colons(last'.text)) + 1
        /\ join(split(last'.text)) = last'.text
        /\ IsPointToPoint(split(last'.text)) = HasGrammar(last'.text)
        /\ \A c \in ClientIds :
              sent'[c] =
                 IF HasGrammar(last'.text)
                 THEN IF <<c>> = GrammarId(last'.text) /\ c \in Keys /\ readyState[c] = "OPEN"
                      THEN <<[clientID |-> GrammarId(last'.text),
                              message |-> GrammarCmd(last'.text)]>>
                      ELSE <<>>
                 ELSE IF c \in Keys /\ readyState[c] = "OPEN"
                      THEN <<[from |-> last'.chatId, sender |-> last'.sender,
                              message |-> last'.text]>>
                      ELSE <<>>
      ]_vars

\* ESP32:A:a: was sent to A alone, with the command a: as it stands.
C17_Witness ==
    /\ LastAccepted
    /\ last.text = <<"ESP32", ":", "A", ":", "a", ":">>
    /\ sent["A"] = <<[clientID |-> <<"A">>, message |-> <<"a", ":">>]>>
    /\ sent["B"] = <<>>

\* ----------------------------------------------------------------------
\* C18: the connection event passes {type: "connected", clientId} to ws.send
\* of the new connection, with the id it has just stored in the Map, and sends
\* to no other connection.  No other event sends a connected message, and a
\* connection is established once, so each connection gets it exactly once.
\* Whatever else is sent to a connection (ping, command, relay) is sent after
\* it: the first message of an established connection is its connected
\* message.
C18_ConnectedFirst ==
    [][\A c \in ClientIds :
          /\ (last'.ev = "connection" /\ last'.id = c)
                => /\ readyState[c] = "NONE"
                   /\ firstOut[c] = NoMsg
                   /\ c \notin Keys /\ c \in Keys'
                   /\ sent'[c] = <<[type |-> "connected", clientId |-> c]>>
                   /\ \A o \in ClientIds \ {c} : sent'[o] = <<>>
          /\ (\E x \in ClientIds \cup {UNDEF} :
                   sent'[c] = <<[type |-> "connected", clientId |-> x]>>)
                => (last'.ev = "connection" /\ last'.id = c)
          /\ (Len(sent'[c]) > 0 /\ ~(last'.ev = "connection" /\ last'.id = c))
                => firstOut[c] = [type |-> "connected", clientId |-> c]
          /\ readyState[c] # "NONE" => readyState'[c] # "NONE"
          /\ readyState'[c] # "NONE" => firstOut'[c] = [type |-> "connected", clientId |-> c]
      ]_vars

\* An operator message relayed to a connection that was established after the
\* first sweep tick: its first message was its connected message.
C18_Witness ==
    /\ last.ev = "telegram"
    /\ Len(sent["B"]) = 1
    /\ firstOut["B"] = [type |-> "connected", clientId |-> "B"]
    /\ "B" \in Keys
    /\ Get("B").lastSeen >= SweepInterval

\* ----------------------------------------------------------------------
\* C19: a sweep tick leaves every stale entry in the Map, with a socket that
\* is CLOSING; an entry leaves the Map only when the close event of its own
\* connection is handled.  Every message a probe tick, a broadcast or a
\* point-to-point command passes to ws.send goes to a connection that is a
\* key of the Map with an OPEN socket at that moment: none to a terminated
\* connection that waits for its close event, none to a closed one.
C19_SendsOnlyToOpen ==
    [][/\ \A c \in ClientIds :
             (Len(sent'[c]) > 0 /\ last'.ev # "connection")
                => (c \in Keys /\ readyState[c] = "OPEN")
       /\ last'.ev = "sweep"
             => /\ clients' = clients
                /\ \A c \in Keys : now - Get(c).lastSeen > StaleThreshold
                                      => readyState'[c] = "CLOSING"
       /\ \A c \in Keys : c \notin Keys' => (last'.ev = "close" /\ last'.id = c)
      ]_vars

\* An operator message after the sweep tick that terminated A and before the
\* close event of A: A is in the Map and gets nothing, B gets the message.
C19_Witness ==
    /\ last.ev = "telegram"
    /\ "A" \in Keys
    /\ terminateCalls["A"] = 1
    /\ readyState["A"] = "CLOSING"
    /\ sent["A"] = <<>>
    /\ Len(sent["B"]) = 1

\* ----------------------------------------------------------------------
\* C20: with the probe every 30 s, the sweep every 10 s and the test
\* now - lastSeen > 30000, no sweep tick calls ws.terminate() on a device that
\* stays connected and whose heartbeat is received less than 10 s after each
\* ping, whenever the device connected.
C20_Original == \A c \in ClientIds : terminateCalls[c] = 0

\* A sweep tick terminated a device that had answered the probe before the
\* last, a little more than 30 s after that answer, while its answer to the
\* last probe was not yet due.
C20_Witness ==
    /\ last.ev = "sweep"
    /\ \E c \in Keys :
          /\ terminateCalls[c] = 1
          /\ readyState[c] = "CLOSING"
          /\ Get(c).lastSeen >= ProbeInterval
          /\ now - Get(c).lastSeen > StaleThreshold
          /\ c \in pinged
          /\ now < LastProbeAt + SweepInterval
====
